---- MODULE Spec2Model ----
(***************************************************************************)
(* Block retrieval and enrichment pipeline of the indexer's JSON server:   *)
(* src/src/server/endpoints/block.rs (get_tx_hashes, get_block_by_hash,    *)
(* get_block_by_height, get_last_block).                                   *)
(*                                                                         *)
(* The handlers are stateless and the store is only read, so every handler *)
(* is one action.  The state is the store content (fixed by Init), the     *)
(* last request, the response it produced and the log of the I/O calls     *)
(* (store reads, oracle round trips) that the handler issued.              *)
(*                                                                         *)
(* I/O failure: every store read and every oracle call may fail.  A        *)
(* handler stops at the first `?` that sees an Err, so a run of a handler  *)
(* is determined by the index failAt of the call that fails (0 = none).    *)
(* A failing call also stands for the `?` on the row conversions that      *)
(* directly follow it (try_get, BlockInfo::try_from, TxInfo::try_from).    *)
(***************************************************************************)
EXTENDS Integers, Sequences, FiniteSets, TLC

\* ---------------------------------------------------------------- bounds
MaxBlocks == 3
MaxTx == 3
MaxCount == 2
MaxOffset == 1

VARIABLES
    blocks,        \* block table: sequence of block rows, ascending height
    tx_index,      \* block_id -> persisted sequence of TxHashEntry rows
    tx_records,    \* tx hash -> Option<TxRecord>; a record is its payload
    request,       \* the request being answered
    response,      \* the handler's result
    calls,         \* calls the handler issued (store, decoder, oracle), in order
    fail_at,       \* index in calls of the call that failed, 0 when none did
    last_single    \* block of the last successful /block/last answer without num

vars == <<blocks, tx_index, tx_records, request, response, calls, fail_at, last_single>>

\* Option<T>: None is the empty sequence, Some(v) the one-element sequence
None == <<>>
Some(v) == <<v>>
IsSome(o) == o # <<>>

\* ------------------------------------------------------ TxDecoded variants
Recognised ==
    {"Transfer", "Bond", "RevealPK", "VoteProposal", "BecomeValidator",
     "InitValidator", "Unbond", "Withdraw", "InitAccount", "UpdateAccount",
     "ResignSteward", "UpdateStewardCommission", "EthPoolBridge", "Ibc",
     "ConsensusKeyChange", "CommissionChange", "MetaDataChange",
     "ClaimRewards", "DeactivateValidator", "ReactivateValidator",
     "UnjailValidator", "InitProposal"}

\* variants in declaration order of the match; the last one is a variant the
\* match has no arm for
VariantSeq ==
    <<"Transfer", "Bond", "RevealPK", "VoteProposal", "BecomeValidator",
      "InitValidator", "Unbond", "Withdraw", "InitAccount", "UpdateAccount",
      "ResignSteward", "UpdateStewardCommission", "EthPoolBridge", "Ibc",
      "ConsensusKeyChange", "CommissionChange", "MetaDataChange",
      "ClaimRewards", "DeactivateValidator", "ReactivateValidator",
      "UnjailValidator", "InitProposal", "Unknown">>

\* tx.decode_tx(&checksums_map): a payload is the variant it encodes, or
\* "Malformed" when the bytes do not decode.  On success tx.tx = Some(variant); on failure
\* the error is returned and tx.tx stays None
decode_tx(record) ==
    IF record.payload = "Malformed"
    THEN [err |-> TRUE, tx |-> None]
    ELSE [err |-> FALSE, tx |-> Some(record.payload)]

\* the match on tx.tx
descriptive_type_no_last_arm(tx) ==
    IF tx = None THEN "Decrypted"
    ELSE IF tx[1] \in Recognised \ {"InitProposal"} THEN tx[1] ELSE "Decrypted"

descriptive_type(tx) ==
    IF tx = None THEN "Decrypted"
    ELSE CASE tx[1] = "Transfer" -> "Transfer"
           [] tx[1] = "Bond" -> "Bond"
           [] tx[1] = "RevealPK" -> "RevealPK"
           [] tx[1] = "VoteProposal" -> "VoteProposal"
           [] tx[1] = "BecomeValidator" -> "BecomeValidator"
           [] tx[1] = "InitValidator" -> "InitValidator"
           [] tx[1] = "Unbond" -> "Unbond"
           [] tx[1] = "Withdraw" -> "Withdraw"
           [] tx[1] = "InitAccount" -> "InitAccount"
           [] tx[1] = "UpdateAccount" -> "UpdateAccount"
           [] tx[1] = "ResignSteward" -> "ResignSteward"
           [] tx[1] = "UpdateStewardCommission" -> "UpdateStewardCommission"
           [] tx[1] = "EthPoolBridge" -> "EthPoolBridge"
           [] tx[1] = "Ibc" -> "Ibc"
           [] tx[1] = "ConsensusKeyChange" -> "ConsensusKeyChange"
           [] tx[1] = "CommissionChange" -> "CommissionChange"
           [] tx[1] = "MetaDataChange" -> "MetaDataChange"
           [] tx[1] = "ClaimRewards" -> "ClaimRewards"
           [] tx[1] = "DeactivateValidator" -> "DeactivateValidator"
           [] tx[1] = "ReactivateValidator" -> "ReactivateValidator"
           [] tx[1] = "UnjailValidator" -> "UnjailValidator"
           [] tx[1] = "InitProposal" -> "InitProposal"
           [] OTHER -> "Decrypted"

\* ------------------------------------------------------------ hex::decode
HexVal(c) ==
    CASE c = "0" -> 0 [] c = "1" -> 1 [] c = "2" -> 2 [] c = "3" -> 3
      [] c = "4" -> 4 [] c = "5" -> 5 [] c = "6" -> 6 [] c = "7" -> 7
      [] c = "8" -> 8 [] c = "9" -> 9
      [] c \in {"a", "A"} -> 10 [] c \in {"b", "B"} -> 11
      [] c \in {"c", "C"} -> 12 [] c \in {"d", "D"} -> 13
      [] c \in {"e", "E"} -> 14 [] c \in {"f", "F"} -> 15
      [] OTHER -> -1

hex_decode(s) ==
    IF Len(s) % 2 # 0 \/ \E i \in 1..Len(s) : HexVal(s[i]) < 0
    THEN [err |-> TRUE, bytes |-> <<>>]
    ELSE [err |-> FALSE,
          bytes |-> [i \in 1..(Len(s) \div 2) |->
                        16 * HexVal(s[2 * i - 1]) + HexVal(s[2 * i])]]

\* ------------------------------------------------------------------ store
DigitChar == <<"1", "2", "3", "4", "5", "6", "7", "8", "9">>

\* content hash of the block stored at height h, and its hex spelling
BlockIdOf(h) == <<16 * h + h>>
HexOf(h) == <<DigitChar[h], DigitChar[h]>>

BlockRow(h) ==
    [block_id |-> BlockIdOf(h),
     header |-> [height |-> h],
     last_commit |-> [height |-> h - 1]]

\* transaction records by hash: hash 1 has no record, hash 2 a payload that
\* does not decode, hash 2+i the i-th variant
TxHashes == 1..(2 + Len(VariantSeq))

TxCatalogue ==
    [t \in TxHashes |->
        IF t = 1 THEN None
        ELSE IF t = 2 THEN Some([payload |-> "Malformed"])
        ELSE Some([payload |-> VariantSeq[t - 2]])]

TxHashEntry(t, ty) == [hash |-> t, tx_type |-> ty]

AllEntries == {TxHashEntry(t, ty) : t \in TxHashes, ty \in {"Decrypted", "Wrapper"}}

\* entries the longer index lists are built from: a wrapper whose record
\* decodes, a decrypted entry without record, one whose payload does not
\* decode, one that decodes to Bond
RepEntries ==
    {TxHashEntry(3, "Wrapper"), TxHashEntry(1, "Decrypted"),
     TxHashEntry(2, "Decrypted"), TxHashEntry(4, "Decrypted")}

SeqsUpTo(S, n) == UNION {[1..k -> S] : k \in 0..n}

\* ---------------------------------------------------------- I/O and calls
Call(op, arg) == [op |-> op, arg |-> arg]

\* the call appended last is the failAt-th event of the request: it fails
Failed(cs, failAt) == Len(cs) = failAt

Result(status, shape, body, cs) ==
    [status |-> status, shape |-> shape, body |-> body, calls |-> cs]

\* `?` on a failed call: the handler returns the error, nothing else
Err(kind, cs) == Result(kind, "Error", <<>>, cs)

\* store lookups (crate::database::Database)
db_get_tx_hashes_block(id) ==
    IF id \in DOMAIN tx_index THEN tx_index[id] ELSE <<>>

db_get_tx(hash) ==
    IF hash \in DOMAIN tx_records THEN tx_records[hash] ELSE None

db_block_by_id(id) ==
    IF \E i \in 1..Len(blocks) : blocks[i].block_id = id
    THEN Some(blocks[CHOOSE i \in 1..Len(blocks) : blocks[i].block_id = id])
    ELSE None

db_block_by_height(height) ==
    IF \E i \in 1..Len(blocks) : blocks[i].header.height = height
    THEN Some(blocks[CHOOSE i \in 1..Len(blocks) : blocks[i].header.height = height])
    ELSE None

\* most recent block; a query error when the table is empty
db_get_last_block ==
    IF Len(blocks) = 0 THEN None ELSE Some(blocks[Len(blocks)])

Min(a, b) == IF a < b THEN a ELSE b

\* up to n most recent blocks after skipping offset (0 when absent), most
\* recent first
db_get_lastest_blocks(n, offset) ==
    LET off == IF IsSome(offset) THEN offset[1] ELSE 0
        avail == IF Len(blocks) > off THEN Len(blocks) - off ELSE 0
        k == Min(n, avail)
    IN [i \in 1..k |-> blocks[Len(blocks) - off - i + 1]]

\* node RPC: the epoch active at a height
query_epoch_at_height(height) == height \div 2

\* BlockInfo::try_from(&row): tx_hashes starts empty
BlockInfo(row) ==
    [block_id |-> row.block_id, header |-> row.header,
     last_commit |-> row.last_commit, tx_hashes |-> <<>>]

\* ---------------------------------------------------------- get_tx_hashes
is_decrypted_always(tx_type) == TRUE

is_decrypted(tx_type) == tx_type = "Decrypted"

\* tx_hashes.push(TxShort { tx_type: descriptive_type, hash_id })
push_tx_front(tx_hashes, descriptive, hash_id) ==
    <<[tx_type |-> descriptive, hash_id |-> hash_id]>> \o tx_hashes

push_tx(tx_hashes, descriptive, hash_id) ==
    Append(tx_hashes, [tx_type |-> descriptive, hash_id |-> hash_id])

\* `let Some(row) = row else { break; }`: the loop ends, what was collected
\* so far is the block's list
on_missing_record(tx_hashes, cs) == Result("Ok", "TxHashes", tx_hashes, cs)

RECURSIVE tx_loop(_, _, _, _, _)
tx_loop(rows, i, tx_hashes, cs, failAt) ==
    IF i > Len(rows)
    THEN Result("Ok", "TxHashes", tx_hashes, cs)
    ELSE LET row == rows[i] IN
         IF is_decrypted(row.tx_type)
         THEN LET cs1 == Append(cs, Call("get_tx", row.hash)) IN
              IF Failed(cs1, failAt) THEN Err("StoreError", cs1)
              ELSE LET rec == db_get_tx(row.hash) IN
                   IF ~IsSome(rec) THEN on_missing_record(tx_hashes, cs1)
                   ELSE LET dec == decode_tx(rec[1])
                            cs2 == Append(cs1, Call("decode_tx", row.hash))
                        IN tx_loop(rows, i + 1,
                                   push_tx(tx_hashes, descriptive_type(dec.tx), row.hash),
                                   cs2, failAt)
         ELSE tx_loop(rows, i + 1, push_tx(tx_hashes, "Wrapper", row.hash), cs, failAt)

\* returns the block with tx_hashes set (body is the block), or the error
get_tx_hashes(block, hash, cs, failAt) ==
    LET cs1 == Append(cs, Call("get_tx_hashes_block", hash)) IN
    IF Failed(cs1, failAt) THEN Err("StoreError", cs1)
    ELSE LET r == tx_loop(db_get_tx_hashes_block(hash), 1, <<>>, cs1, failAt) IN
         IF r.status # "Ok" THEN r
         ELSE Result("Ok", "Block", [block EXCEPT !.tx_hashes = r.body], r.calls)

\* --------------------------------------------- get_block_by_hash / _height
\* `let Some(row) = row else { return Ok(Json(None)) }`
not_found_as_error(cs) == Err("StoreError", cs)

not_found(cs) == Result("Ok", "Option", None, cs)

assemble_found(row, cs, failAt) ==
    LET r == get_tx_hashes(BlockInfo(row), row.block_id, cs, failAt) IN
    IF r.status # "Ok" THEN r
    ELSE Result("Ok", "Option", Some(r.body), r.calls)

get_block_by_hash(hash, failAt) ==
    LET id == hex_decode(hash) IN
    IF id.err THEN Err("ClientInput", <<>>)
    ELSE LET cs1 == <<Call("block_by_id", id.bytes)>> IN
         IF Failed(cs1, failAt) THEN Err("StoreError", cs1)
         ELSE LET row == db_block_by_id(id.bytes) IN
              IF ~IsSome(row) THEN not_found(cs1)
              ELSE assemble_found(row[1], cs1, failAt)

get_block_by_height(height, failAt) ==
    LET cs1 == <<Call("block_by_height", height)>> IN
    IF Failed(cs1, failAt) THEN Err("StoreError", cs1)
    ELSE LET row == db_block_by_height(height) IN
         IF ~IsSome(row) THEN not_found(cs1)
         ELSE assemble_found(row[1], cs1, failAt)

\* ----------------------------------------------------------- get_last_block
\* the height the oracle is asked about
epoch_height_next(block) == block.header.height + 1

epoch_height(block) == block.header.height

BlockInfoWithEpoch(block, epoch) ==
    [block_id |-> block.block_id, header |-> block.header,
     last_commit |-> block.last_commit, tx_hashes |-> block.tx_hashes,
     epoch |-> epoch]

\* the BlockInfoWithEpoch of the single-block answer
BoxedBlockInfoWithEpoch_no_txs(block, epoch) ==
    [block_id |-> block.block_id, header |-> block.header,
     last_commit |-> block.last_commit, tx_hashes |-> <<>>, epoch |-> epoch]

BoxedBlockInfoWithEpoch(block, epoch) ==
    [block_id |-> block.block_id, header |-> block.header,
     last_commit |-> block.last_commit, tx_hashes |-> block.tx_hashes,
     epoch |-> epoch]

on_oracle_err_partial(blocks_so_far, cs) ==
    Result("Ok", "LatestBlocks", blocks_so_far, cs)

\* `?` on the oracle's error: the blocks collected so far are dropped
on_oracle_err(blocks_so_far, cs) == Err("OracleFailure", cs)

\* blocks.push(block_with_epoch)
push_block_front(blocks_so_far, block_with_epoch) == <<block_with_epoch>> \o blocks_so_far

push_block(blocks_so_far, block_with_epoch) == Append(blocks_so_far, block_with_epoch)

\* assemble one row and ask the oracle; body is <<block, epoch>>
enrich(row, blocks_so_far, cs, failAt) ==
    LET r == get_tx_hashes(BlockInfo(row), row.block_id, cs, failAt) IN
    IF r.status # "Ok" THEN r
    ELSE LET cs1 == Append(r.calls, Call("query_epoch_at_height", epoch_height(r.body))) IN
         IF Failed(cs1, failAt) THEN on_oracle_err(blocks_so_far, cs1)
         ELSE Result("Ok", "Enriched",
                     <<r.body, query_epoch_at_height(epoch_height(r.body))>>, cs1)

RECURSIVE blocks_loop(_, _, _, _, _)
blocks_loop(rows, i, blocks_so_far, cs, failAt) ==
    IF i > Len(rows)
    THEN Result("Ok", "LatestBlocks", blocks_so_far, cs)
    ELSE LET r == enrich(rows[i], blocks_so_far, cs, failAt) IN
         IF r.shape # "Enriched" THEN r
         ELSE blocks_loop(rows, i + 1,
                          push_block(blocks_so_far, BlockInfoWithEpoch(r.body[1], r.body[2])),
                          r.calls, failAt)

last_block_single(failAt) ==
    LET cs1 == <<Call("get_last_block", 0)>> IN
    IF Failed(cs1, failAt) \/ ~IsSome(db_get_last_block) THEN Err("StoreError", cs1)
    ELSE LET r == enrich(db_get_last_block[1], <<>>, cs1, failAt) IN
         IF r.shape # "Enriched" THEN r
         ELSE Result("Ok", "LastBlock",
                     <<BoxedBlockInfoWithEpoch(r.body[1], r.body[2])>>, r.calls)

get_last_block(num, offset, failAt) ==
    IF IsSome(num)
    THEN LET cs1 == <<Call("get_lastest_blocks", num[1])>> IN
         IF Failed(cs1, failAt) THEN Err("StoreError", cs1)
         ELSE blocks_loop(db_get_lastest_blocks(num[1], offset), 1, <<>>, cs1, failAt)
    ELSE last_block_single(failAt)

\* ------------------------------------------------------------------ inputs
\* events of the longest request for one block: the table read, the index
\* read, a fetch and a decode per entry
MaxBlockEvents == 2 + 2 * MaxTx
\* events of the longest /block/last request: the table read, then for the busy
\* block the index read, a fetch and a decode per entry and the oracle call,
\* and for every other block four events
MaxEvents == 1 + (2 * MaxTx + 2) + (MaxCount - 1) * 4
BlockFailPoints == 0..MaxBlockEvents
FailPoints == 0..MaxEvents

HashPaths ==
    {HexOf(h) : h \in 1..MaxBlocks}
        \cup {<<"f", "f">>, <<"F", "F">>, <<"1">>, <<"z", "z">>}
Heights == 0..(MaxBlocks + 1)
Counts == {None} \cup {Some(n) : n \in 0..MaxCount}
Offsets == {None} \cup {Some(o) : o \in 0..MaxOffset}

Request(kind, hash, height, num, offset) ==
    [kind |-> kind, hash |-> hash, height |-> height, num |-> num, offset |-> offset]

\* ----------------------------------------------------------- specification
NoRequest == Request("none", <<>>, 0, None, None)
NoResponse == [status |-> "none", shape |-> "none", body |-> <<>>]

\* one block (the busy one, the oldest or the most recent) holds the index
\* list txs, every other block one decrypted transfer
Store(nb, busy, txs) ==
    /\ blocks = [h \in 1..nb |-> BlockRow(h)]
    /\ tx_index = [id \in {BlockIdOf(h) : h \in 1..nb} |->
                      IF id = BlockIdOf(busy) THEN txs
                      ELSE <<TxHashEntry(3, "Decrypted")>>]
    /\ tx_records = TxCatalogue

Init ==
    /\ \/ \E nb \in 0..MaxBlocks, txs \in SeqsUpTo(RepEntries, MaxTx) :
            \E busy \in {Min(1, nb), nb} : Store(nb, busy, txs)
       \/ \E e \in AllEntries : Store(1, 1, <<e>>)
    /\ request = NoRequest
    /\ response = NoResponse
    /\ calls = <<>>
    /\ fail_at = 0
    /\ last_single = None

\* the handler ran for the request and leaves its result
\* the failAt-th call failed if the handler got that far and it is I/O
FailedCall(cs, failAt) ==
    IF failAt \in 1..Len(cs) /\ cs[failAt].op # "decode_tx" THEN failAt ELSE 0

Respond(req, r, failAt) ==
    /\ request' = req
    /\ response' = [status |-> r.status, shape |-> r.shape, body |-> r.body]
    /\ calls' = r.calls
    /\ fail_at' = FailedCall(r.calls, failAt)
    /\ UNCHANGED <<blocks, tx_index, tx_records, last_single>>

GetBlockByHash ==
    /\ request = NoRequest
    /\ \E hash \in HashPaths, failAt \in BlockFailPoints :
          \E r \in {get_block_by_hash(hash, failAt)} :
              Respond(Request("ByHash", hash, 0, None, None), r, failAt)

GetBlockByHeight ==
    /\ request = NoRequest
    /\ \E height \in Heights, failAt \in BlockFailPoints :
          \E r \in {get_block_by_height(height, failAt)} :
              Respond(Request("ByHeight", <<>>, height, None, None), r, failAt)

GetLastBlock ==
    /\ request = NoRequest
    /\ \E num \in Counts, offset \in Offsets, failAt \in FailPoints :
          \E r \in {get_last_block(num, offset, failAt)} :
              Respond(Request("Latest", <<>>, 0, num, offset), r, failAt)

\* the result is handed to the caller and the request is over; the client
\* keeps the block of a successful single-block answer
Reply ==
    /\ request # NoRequest
    /\ last_single' = IF response.status = "Ok" /\ response.shape = "LastBlock"
                      THEN Some(response.body[1]) ELSE last_single
    /\ request' = NoRequest
    /\ response' = NoResponse
    /\ calls' = <<>>
    /\ fail_at' = 0
    /\ UNCHANGED <<blocks, tx_index, tx_records>>

Next == GetBlockByHash \/ GetBlockByHeight \/ GetLastBlock \/ Reply

Spec == Init /\ [][Next]_vars

\* ------------------------------------------------------------- properties
\* the block views the caller received (an Option body is None or Some)
Returned == IF response.status = "Ok" THEN response.body ELSE <<>>

\* the persisted TxHashEntry rows of a block view
EntriesOf(b) == tx_index[b.block_id]

NoRecord(e) == e.tx_type = "Decrypted" /\ tx_records[e.hash] = None
DecodeFails(e) ==
    /\ e.tx_type = "Decrypted"
    /\ tx_records[e.hash] # None
    /\ tx_records[e.hash][1].payload = "Malformed"

HashesOf(seq) == [i \in 1..Len(seq) |-> seq[i].hash]
SummaryHashes(b) == [i \in 1..Len(b.tx_hashes) |-> b.tx_hashes[i].hash_id]

\* seq without its k-th element
Without(seq, k) == SubSeq(seq, 1, k - 1) \o SubSeq(seq, k + 1, Len(seq))

\* the label the classification contract gives an entry whose record exists
RefLabel(e) ==
    IF e.tx_type = "Wrapper" THEN "Wrapper"
    ELSE IF tx_records[e.hash][1].payload \in Recognised
         THEN tx_records[e.hash][1].payload
         ELSE "Decrypted"

\* C1: a block in which exactly one "Decrypted" entry has no record is
\* assembled into N-1 summaries: the persisted entries without that one, in
\* persisted order.
C1_OnlyMissingEntryOmitted ==
    \A n \in 1..Len(Returned) :
        LET b == Returned[n]
            rows == EntriesOf(b)
            missing == {i \in 1..Len(rows) : NoRecord(rows[i])}
        IN Cardinality(missing) = 1 =>
              SummaryHashes(b) = HashesOf(Without(rows, CHOOSE k \in missing : TRUE))

\* C2: when every referenced record exists, a returned block has exactly one
\* summary per persisted entry, the i-th carrying the i-th entry's hash, in
\* every request mode.
C2_SummariesMatchEntries ==
    \A n \in 1..Len(Returned) :
        LET b == Returned[n]
            rows == EntriesOf(b)
        IN (\A i \in 1..Len(rows) : ~NoRecord(rows[i])) =>
              /\ Len(b.tx_hashes) = Len(rows)
              /\ SummaryHashes(b) = HashesOf(rows)

C2_Witness ==
    /\ request.kind = "Latest"
    /\ IsSome(request.num)
    /\ \E n \in 1..Len(Returned) :
          LET rows == EntriesOf(Returned[n]) IN
          /\ Len(rows) = 3
          /\ rows[1].tx_type = "Decrypted"
          /\ rows[2].tx_type = "Wrapper"
          /\ rows[3] = rows[1]
          /\ \A i \in 1..Len(rows) : ~NoRecord(rows[i])
          /\ Len(Returned[n].tx_hashes) = 3

\* C3: every summary carries the label of the entry it stands for: "Wrapper"
\* for a wrapper entry, the variant's name for a decrypted entry that decodes
\* to a recognised variant, "Decrypted" otherwise.
C3_LabelsAreClassification ==
    \A n \in 1..Len(Returned) :
        LET b == Returned[n]
            rows == EntriesOf(b)
        IN \A j \in 1..Len(b.tx_hashes) :
              /\ j <= Len(rows)
              /\ b.tx_hashes[j].hash_id = rows[j].hash
              /\ b.tx_hashes[j].tx_type = RefLabel(rows[j])

C3_Witness ==
    \E n \in 1..Len(Returned) :
        LET b == Returned[n] IN
        /\ Len(b.tx_hashes) = 3
        /\ b.tx_hashes[1].tx_type = "Wrapper"
        /\ DecodeFails(EntriesOf(b)[2])
        /\ b.tx_hashes[2].tx_type = "Decrypted"
        /\ b.tx_hashes[3].tx_type = "Bond"

\* C4: an entry whose record does not decode still yields a summary labelled
\* "Decrypted", no error is returned, and every entry stored after it (but for
\* those without a record, which are omitted) appears in the result.
C4_DecodeFailureKeepsLaterEntries ==
    \A c \in 1..Len(calls) :
        (/\ calls[c].op = "decode_tx"
         /\ tx_records[calls[c].arg][1].payload = "Malformed"
         /\ fail_at = 0)
        => /\ response.status = "Ok"
           /\ \A n \in 1..Len(Returned) :
                 LET b == Returned[n]
                     rows == EntriesOf(b)
                 IN \A i \in 1..Len(rows) :
                       (DecodeFails(rows[i]) /\ \A k \in 1..(i - 1) : ~NoRecord(rows[k]))
                       => /\ i <= Len(b.tx_hashes)
                          /\ b.tx_hashes[i].tx_type = "Decrypted"
                          /\ \A j \in (i + 1)..Len(rows) :
                                ~NoRecord(rows[j]) =>
                                   \E k \in 1..Len(b.tx_hashes) :
                                       b.tx_hashes[k].hash_id = rows[j].hash

\* C5: when the oracle call fails in a /block/last request the request fails
\* and carries no block, also not those annotated before the failing call.
OracleFailed ==
    /\ request.kind = "Latest"
    /\ fail_at > 0
    /\ calls[fail_at].op = "query_epoch_at_height"

C5_OracleFailureFailsRequest ==
    OracleFailed =>
        /\ response.status = "OracleFailure"
        /\ response.shape = "Error"
        /\ response.body = <<>>

C5_Witness ==
    /\ OracleFailed
    /\ IsSome(request.num)
    /\ \E c \in 1..(fail_at - 1) : calls[c].op = "query_epoch_at_height"
    /\ response.status = "OracleFailure"

\* C6: a well-formed hash or a height that the store does not hold gives the
\* empty NotFound result, and the block lookup is the only call made.
BlockAbsent ==
    \/ /\ request.kind = "ByHash"
       /\ ~hex_decode(request.hash).err
       /\ \A i \in 1..Len(blocks) : blocks[i].block_id # hex_decode(request.hash).bytes
    \/ /\ request.kind = "ByHeight"
       /\ \A i \in 1..Len(blocks) : blocks[i].header.height # request.height

C6_AbsentBlockIsNotFound ==
    BlockAbsent =>
        /\ Len(calls) = 1
        /\ calls[1].op \in {"block_by_id", "block_by_height"}
        /\ fail_at = 0 => response = [status |-> "Ok", shape |-> "Option", body |-> None]

C6_Witness ==
    /\ BlockAbsent
    /\ request.kind = "ByHash"
    /\ Len(blocks) > 0
    /\ response = [status |-> "Ok", shape |-> "Option", body |-> None]

\* C7: /block/last with num=1, offset=0 returns, as a one-element sequence,
\* the block that /block/last without num returned alone on the same store;
\* the shape follows from the presence of num only.
C7_SingleEqualsCountOne ==
    (request.kind = "Latest" /\ response.status = "Ok") =>
        /\ response.shape = IF IsSome(request.num) THEN "LatestBlocks" ELSE "LastBlock"
        /\ (request.num = Some(1) /\ request.offset = Some(0) /\ IsSome(last_single))
              => response.body = <<last_single[1]>>

C7_Witness ==
    /\ request.kind = "Latest"
    /\ response.status = "Ok"
    /\ request.num = Some(1)
    /\ request.offset = Some(0)
    /\ IsSome(last_single)
    /\ Len(blocks) > 1
    /\ Len(last_single[1].tx_hashes) > 1

\* C8: num=c, offset=o (0 when absent) on a store of at least o+c blocks, all
\* I/O succeeding, returns the (o+1)-th to (o+c)-th most recent blocks, most
\* recent first.
OffsetOf(req) == IF IsSome(req.offset) THEN req.offset[1] ELSE 0

C8_LatestWindow ==
    (/\ request.kind = "Latest"
     /\ IsSome(request.num)
     /\ fail_at = 0
     /\ Len(blocks) >= OffsetOf(request) + request.num[1])
    => /\ response.status = "Ok"
       /\ Len(response.body) = request.num[1]
       /\ \A i \in 1..Len(response.body) :
             LET row == blocks[Len(blocks) - (OffsetOf(request) + i) + 1] IN
             /\ response.body[i].block_id = row.block_id
             /\ response.body[i].header = row.header
             /\ response.body[i].last_commit = row.last_commit

C8_Witness ==
    /\ request.kind = "Latest"
    /\ request.num = Some(2)
    /\ request.offset = Some(1)
    /\ Len(blocks) = 3
    /\ response.status = "Ok"
    /\ Len(response.body) = 2
    /\ response.body[1].header.height = 2

\* C9: the record fetches and decode attempts of a block assembly are those
\* of the block's "Decrypted" entries, in order and one per entry; a
\* "Wrapper" entry causes none.
IsDecryptedEntry(e) == e.tx_type = "Decrypted"
IsPrefix(p, q) == Len(p) <= Len(q) /\ SubSeq(q, 1, Len(p)) = p
IsTxCall(c) == c.op \in {"get_tx", "decode_tx"}

\* the fetches (or decodes) issued after the index read at position q, up to
\* the next call that is no fetch or decode
RECURSIVE SegmentArgs(_, _, _)
SegmentArgs(cs, q, op) ==
    IF q + 1 > Len(cs) \/ ~IsTxCall(cs[q + 1]) THEN <<>>
    ELSE (IF cs[q + 1].op = op THEN <<cs[q + 1].arg>> ELSE <<>>)
            \o SegmentArgs(cs, q + 1, op)

C9_FetchesOnlyForDecrypted ==
    /\ \A q \in 1..Len(calls) :
          calls[q].op = "get_tx_hashes_block" =>
             LET dec == HashesOf(SelectSeq(db_get_tx_hashes_block(calls[q].arg),
                                           IsDecryptedEntry))
             IN /\ IsPrefix(SegmentArgs(calls, q, "get_tx"), dec)
                /\ IsPrefix(SegmentArgs(calls, q, "decode_tx"),
                            SegmentArgs(calls, q, "get_tx"))
    /\ \A p \in 1..Len(calls) :
          IsTxCall(calls[p]) =>
             \E q \in 1..(p - 1) :
                /\ calls[q].op = "get_tx_hashes_block"
                /\ \A m \in (q + 1)..p : IsTxCall(calls[m])

C9_Witness ==
    /\ response.status = "Ok"
    /\ \E q \in 1..Len(calls) :
          /\ calls[q].op = "get_tx_hashes_block"
          /\ LET rows == db_get_tx_hashes_block(calls[q].arg) IN
             /\ Len(rows) = 3
             /\ rows[1].tx_type = "Wrapper"
             /\ rows[2].tx_type = "Decrypted"
             /\ rows[3].tx_type = "Wrapper"
          /\ Len(SegmentArgs(calls, q, "get_tx")) = 1

\* C10: a successful /block/last with num makes one oracle call per returned
\* block, for that block's height, after the block's index read and before
\* the next block's; the block carries the oracle's answer for its own
\* height; by-hash and by-height requests make no oracle call.
BlockCalls == SelectSeq(calls, LAMBDA c : c.op \in {"get_tx_hashes_block", "query_epoch_at_height"})

C10_OneOracleCallPerBlock ==
    /\ (request.kind = "Latest" /\ IsSome(request.num) /\ response.status = "Ok") =>
          /\ Len(BlockCalls) = 2 * Len(response.body)
          /\ \A i \in 1..Len(response.body) :
                /\ BlockCalls[2 * i - 1] = Call("get_tx_hashes_block", response.body[i].block_id)
                /\ BlockCalls[2 * i] =
                      Call("query_epoch_at_height", response.body[i].header.height)
                /\ response.body[i].epoch =
                      query_epoch_at_height(response.body[i].header.height)
    /\ request.kind \in {"ByHash", "ByHeight"} =>
          \A c \in 1..Len(calls) : calls[c].op # "query_epoch_at_height"

C10_Witness ==
    /\ request.kind = "Latest"
    /\ request.num = Some(2)
    /\ response.status = "Ok"
    /\ Len(response.body) = 2
    /\ response.body[1].epoch # response.body[2].epoch

====
